---- MODULE Spec2Model ----
(***************************************************************************)
(* Model of drivers/clocksource/timer-ingenic.c: the Ingenic TCU channel   *)
(* allocator (ingenic_tcu_req_channel / ingenic_tcu_free_channel), the     *)
(* channel reset, the clock-event binding (set_next_event,                 *)
(* set_state_shutdown, the interrupt handler) and the unit initializer     *)
(* (ingenic_tcu_init / ingenic_tcu_setup_cevt).                            *)
(*                                                                         *)
(* Every function is cut into steps at its calls into the rest of the      *)
(* kernel (clock provider, regmap, irq core, allocator, clockevents) so    *)
(* that interrupts and other callers interleave where the hardware lets    *)
(* them.  Those callees live outside this file; they are modelled by the   *)
(* behaviour the driver relies on, each outcome chosen nondeterministically*)
(***************************************************************************)
EXTENDS Integers, Sequences, FiniteSets, TLC

\* ---------------------------------------------------------------- bounds
MaxChannels == 2      \* largest discovered channel count ("interrupts" entries)
MaxTimers == 2        \* longest activation list ("timers" entries)
NumClaimants == 2     \* callers of the allocator in the allocator harness

\* ------------------------------------------------------ program constants
TCSR_RESERVED_BITS == 63
REG_TDFR0 == 64
REG_TCNT0 == 72
CHANNEL_STRIDE == 16
U16_MAX == 65535
MIN_DELTA == 10

\* Variant of REG_TDFRc with half the channel stride.
REG_TDFRc_half_stride(c) == REG_TDFR0 + (c * (CHANNEL_STRIDE \div 2))
REG_TDFRc(c) == REG_TDFR0 + (c * CHANNEL_STRIDE)
REG_TCNTc(c) == REG_TCNT0 + (c * CHANNEL_STRIDE)

\* -------------------------------------------------------------- universes
Slots == 0..MaxChannels            \* channel array slots a "timers" entry can name;
                                   \* slots >= num_channels lie beyond the array
Bits == 0..MaxChannels             \* bit numbers / clock ordinals a slot's idx can hold
Bindings == 1..MaxTimers           \* one clock-event binding per activation entry
Virqs == 1..(MaxChannels + 1)      \* virq of interrupt specifier idx is idx + 1
Threads == 0..NumClaimants         \* 0: ingenic_tcu_init; 1..: harness callers
Claimants == 1..NumClaimants
Offsets == {REG_TDFRc(c) : c \in Bits} \cup {REG_TCNTc(c) : c \in Bits}

TickInputs == {0, 65535, 65536}     \* arguments of set_next_event
Rates == {0, 12000000}                   \* clk_get_rate results
StaleRegs == {7}                      \* register contents left by prior use
TcsrInit == {43605}        \* TCSR contents left by prior use

\* Bitwise and of two naturals below 2^n
RECURSIVE BitAnd(_, _, _)
BitAnd(a, b, n) ==
  IF n = 0 THEN 0
  ELSE (IF a % 2 = 1 /\ b % 2 = 1 THEN 1 ELSE 0) + 2 * BitAnd(a \div 2, b \div 2, n - 1)

WordBits == 31    \* widest value the registers of the model hold

\* a & ~b, for naturals: the bits of a that b does not have
AndNot(a, b) == a - BitAnd(a, b, WordBits)

\* regmap_update_bits(map, reg, mask, val): new = (old & ~mask) | (val & mask)
regmap_update_bits(old, mask, val) == AndNot(old, mask) + BitAnd(val, mask, WordBits)

\* ------------------------------------------------------------------ state
VARIABLES
  num_channels,   \* tcu->num_channels
  timers,         \* the "timers" property: the activation list
  requested,      \* tcu->requested, as the set of set bit numbers
  channels,       \* tcu->channels[] (and the memory just beyond it)
  clk_refs,       \* clock provider: outstanding clk_get references per clock
  clk_enabled,    \* clock provider: prepare/enable count per clock
  TER,            \* shared enable register, as the set of set channel bits
  mmio,           \* TCU register window: offset -> last value written
  TCSR,           \* per-channel control register behind the "tcsr" syscon
  cevts,          \* struct ingenic_clock_event_device per activation entry
  irq_map,        \* virqs with a live mapping
  irq_action,     \* virq -> binding whose handler is registered (0: none)
  th,             \* per thread: position and locals
  fw,             \* the framework's call in progress in the base context
  irq,            \* the interrupt handler in progress
  oob,            \* a slot outside 0..num_channels-1 was dereferenced
  panic           \* BUG_ON hit or a fault taken: the kernel stopped

vars == <<num_channels, timers, requested, channels, clk_refs, clk_enabled, TER,
          mmio, TCSR, cevts, irq_map, irq_action, th, fw, irq, oob, panic>>

hw == <<TER, mmio>>
clkvars == <<clk_refs, clk_enabled>>
irqvars == <<irq_map, irq_action>>
cfg == <<num_channels, timers>>

\* ---------------------------------------------------------------- records
ClkNull == [kind |-> "null", id |-> 0]
ClkErr == [kind |-> "err", id |-> 0]
ClkOf(n) == [kind |-> "clk", id |-> n]

NoCevt == [alloc |-> FALSE, channel_set |-> FALSE, channel |-> 0,
           event_handler |-> FALSE, registered |-> FALSE,
           rate |-> 0, min_delta |-> 0, max_delta |-> 0]

ThreadOff == [pc |-> "off", i |-> 0, slot |-> 0, err |-> "OK", fail |-> "none",
              rate |-> 0, virq |-> 0, held |-> {}, released |-> {}]

\* A call in progress on binding k: its position, its argument and result.
FwIdle == [k |-> 0, pc |-> "idle", op |-> "none", next |-> 0, ret |-> "none",
           idle_at_call |-> FALSE, called |-> 0]
IrqNone == [k |-> 0, pc |-> "none", op |-> "none", next |-> 0, ret |-> "none",
            idle_at_call |-> FALSE, called |-> 0]

\* The unit is brought up on one processor and every device is pinned to it
\* (cevt.cpumask = cpumask_of(smp_processor_id())): initialization and the
\* framework's calls share the base context, and an interrupt handler
\* preempts the base context until it returns.  Callers of the allocator
\* harness are concurrent with each other.
ThreadRuns(t) == ~panic /\ irq.pc = "none" /\ fw.pc = "idle"

\* ingenic_tcu_init_tcu: the array slots 0..num_channels-1 are zeroed and then
\* given their tcu back-pointer and index; what lies beyond is not the driver's.
InitChannels(n) ==
  [s \in Slots |-> [tcu_ok |-> s < n, idx |-> IF s < n THEN s ELSE 0, clk |-> ClkNull]]

Seqs(S, n) == UNION {[1..m -> S] : m \in 0..n}

InitCommon ==
  /\ num_channels \in 1..MaxChannels
  /\ requested = {}
  /\ channels = InitChannels(num_channels)
  /\ clk_refs = [n \in Bits |-> 0]
  /\ clk_enabled = [n \in Bits |-> 0]
  /\ TER \in SUBSET (0..(num_channels - 1))
  /\ \E v \in StaleRegs : mmio = [o \in Offsets |-> v]
  /\ \E v \in TcsrInit : TCSR = [c \in Bits |-> v]
  /\ cevts = [k \in Bindings |-> NoCevt]
  /\ irq_map = {}
  /\ irq_action = [v \in Virqs |-> 0]
  /\ fw = FwIdle
  /\ irq = IrqNone
  /\ oob = FALSE
  /\ panic = FALSE

\* State on entry to the loop of ingenic_tcu_init: the unit is built, no
\* channel is claimed, the hardware is as the boot loader left it.
Init ==
  /\ InitCommon
  /\ timers \in Seqs(Slots, MaxTimers)
  /\ th = [t \in Threads |-> IF t = 0 THEN [ThreadOff EXCEPT !.pc = "loop", !.i = 1]
                             ELSE ThreadOff]


\* ------------------------------------------------------- thread positions
Goto(t, pc) == [th EXCEPT ![t].pc = pc]
GotoErr(t, pc, e) == [th EXCEPT ![t].pc = pc, ![t].err = e]
\* fail names the statement that failed; the code keeps only err.
GotoFail(t, pc, e, f) == [th EXCEPT ![t].pc = pc, ![t].err = e, ![t].fail = f]

\* Return of ingenic_tcu_req_channel to its caller: ingenic_tcu_setup_cevt
\* goes on to the reset or returns the error; a harness caller keeps the result.
ReqDone(t, e) ==
  IF t = 0
  THEN GotoErr(t, IF e = "OK" THEN "reset" ELSE "setup_ret", e)
  ELSE [th EXCEPT ![t].pc = "h_idle", ![t].err = e,
                  ![t].held = IF e = "OK" THEN @ \cup {th[t].slot} ELSE @]

\* Return of ingenic_tcu_free_channel to its caller.
FreeDone(t) ==
  IF t = 0
  THEN Goto(t, "setup_ret")
  ELSE [th EXCEPT ![t].pc = "h_idle", ![t].err = "OK",
                  ![t].held = @ \ {th[t].slot},
                  ![t].released = @ \cup {th[t].slot}]

\* What a read of tcu->channels[s] yields.  Inside the array it is the slot;
\* beyond the array it is whatever the heap holds there: an idx of any value
\* behind a tcu pointer that happens to be usable (a wild tcu pointer faults).
SlotReads(s) ==
  IF channels[s].tcu_ok THEN {channels[s]}
  ELSE {[tcu_ok |-> TRUE, idx |-> g, clk |-> ClkNull] : g \in Bits}

SlotOutcomes(s) ==
  {[fault |-> FALSE, ch |-> c] : c \in SlotReads(s)}
    \cup (IF channels[s].tcu_ok THEN {} ELSE {[fault |-> TRUE, ch |-> channels[s]]})

\* ------------------------------------------------------ Channel Allocator
\* test_and_set_bit(channel->idx, &channel->tcu->requested): one atomic step.
test_and_set_bit(nr, bitmap) == [old |-> nr \in bitmap, new |-> bitmap \cup {nr}]
clear_bit(nr, bitmap) == bitmap \ {nr}


\* Variant of ingenic_tcu_req_channel that leaves through out_release when
\* the bit is already set.
req_channel_busy_unwinds(t) ==
  /\ ThreadRuns(t)
  /\ th[t].pc = "req_tas"
  /\ channels[th[t].slot].tcu_ok
  /\ LET r == test_and_set_bit(channels[th[t].slot].idx, requested)
     IN /\ th' = IF r.old THEN GotoFail(t, "req_out_release", "EBUSY", "claim_busy")
                 ELSE Goto(t, "req_clk_get")
        /\ requested' = r.new
  /\ UNCHANGED <<cfg, channels, clkvars, hw, TCSR, cevts, irqvars, fw, irq, oob, panic>>

\* Variant of ingenic_tcu_req_channel that sets the bit without testing it.
req_channel_untested(t) ==
  /\ ThreadRuns(t)
  /\ th[t].pc = "req_tas"
  /\ channels[th[t].slot].tcu_ok
  /\ requested' = requested \cup {channels[th[t].slot].idx}
  /\ th' = Goto(t, "req_clk_get")
  /\ UNCHANGED <<cfg, channels, clkvars, hw, TCSR, cevts, irqvars, fw, irq, oob, panic>>

ingenic_tcu_req_channel(t) ==
  /\ ThreadRuns(t)
  /\ th[t].pc = "req_tas"
  /\ \E o \in SlotOutcomes(th[t].slot) :
       LET s == th[t].slot
           r == test_and_set_bit(o.ch.idx, requested)
       IN /\ oob' = (oob \/ s >= num_channels)
          /\ IF o.fault
             THEN /\ panic' = TRUE
                  /\ th' = Goto(t, "oops")
                  /\ UNCHANGED <<requested, channels>>
             ELSE /\ panic' = panic
                  /\ channels' = [channels EXCEPT ![s] = o.ch]
                  /\ IF r.old
                     THEN /\ th' = [ReqDone(t, "EBUSY") EXCEPT ![t].fail = "claim_busy"]
                          /\ requested' = requested
                     ELSE /\ th' = Goto(t, "req_clk_get")
                          /\ requested' = r.new
  /\ UNCHANGED <<cfg, clkvars, hw, TCSR, cevts, irqvars, fw, irq>>

\* channel->clk = clk_get(NULL, "timer<idx>"), and the IS_ERR branch.
req_clk_get(t) ==
  /\ ThreadRuns(t)
  /\ th[t].pc = "req_clk_get"
  /\ \E ok \in BOOLEAN :
       LET s == th[t].slot
           n == channels[s].idx
       IN IF ok
          THEN /\ channels' = [channels EXCEPT ![s].clk = ClkOf(n)]
               /\ clk_refs' = [clk_refs EXCEPT ![n] = @ + 1]
               /\ th' = Goto(t, "req_clk_en")
          ELSE /\ channels' = [channels EXCEPT ![s].clk = ClkErr]
               /\ clk_refs' = clk_refs
               /\ th' = GotoFail(t, "req_out_release", "ENOENT", "clk_get")
  /\ UNCHANGED <<cfg, requested, clk_enabled, hw, TCSR, cevts, irqvars, fw, irq, oob, panic>>

\* err = clk_prepare_enable(channel->clk)
req_clk_prepare_enable(t) ==
  /\ ThreadRuns(t)
  /\ th[t].pc = "req_clk_en"
  /\ \E ok \in BOOLEAN :
       LET n == channels[th[t].slot].clk.id
       IN IF ok
          THEN /\ clk_enabled' = [clk_enabled EXCEPT ![n] = @ + 1]
               /\ th' = ReqDone(t, "OK")
          ELSE /\ clk_enabled' = clk_enabled
               /\ th' = GotoFail(t, "req_out_clk_put", "EIO", "clk_enable")
  /\ UNCHANGED <<cfg, requested, channels, clk_refs, hw, TCSR, cevts, irqvars, fw, irq, oob, panic>>

\* Variant of out_clk_put that drops through without the clk_put.
req_out_clk_put_leaking(t) ==
  /\ ThreadRuns(t)
  /\ th[t].pc = "req_out_clk_put"
  /\ th' = Goto(t, "req_out_release")
  /\ UNCHANGED <<cfg, requested, channels, clkvars, hw, TCSR, cevts, irqvars, fw, irq, oob, panic>>

\* out_clk_put: clk_put(channel->clk)
req_out_clk_put(t) ==
  /\ ThreadRuns(t)
  /\ th[t].pc = "req_out_clk_put"
  /\ clk_refs' = [clk_refs EXCEPT ![channels[th[t].slot].clk.id] = @ - 1]
  /\ th' = Goto(t, "req_out_release")
  /\ UNCHANGED <<cfg, requested, channels, clk_enabled, hw, TCSR, cevts, irqvars, fw, irq, oob, panic>>

\* out_release: clear_bit(channel->idx, &channel->tcu->requested); return err
req_out_release(t) ==
  /\ ThreadRuns(t)
  /\ th[t].pc = "req_out_release"
  /\ requested' = clear_bit(channels[th[t].slot].idx, requested)
  /\ th' = ReqDone(t, th[t].err)
  /\ UNCHANGED <<cfg, channels, clkvars, hw, TCSR, cevts, irqvars, fw, irq, oob, panic>>

\* ingenic_tcu_free_channel, statement by statement.
free_clk_disable_unprepare(t) ==
  /\ ThreadRuns(t)
  /\ th[t].pc = "free_disable"
  /\ clk_enabled' = [clk_enabled EXCEPT ![channels[th[t].slot].clk.id] = @ - 1]
  /\ th' = Goto(t, "free_put")
  /\ UNCHANGED <<cfg, requested, channels, clk_refs, hw, TCSR, cevts, irqvars, fw, irq, oob, panic>>

free_clk_put(t) ==
  /\ ThreadRuns(t)
  /\ th[t].pc = "free_put"
  /\ clk_refs' = [clk_refs EXCEPT ![channels[th[t].slot].clk.id] = @ - 1]
  /\ th' = Goto(t, "free_clear")
  /\ UNCHANGED <<cfg, requested, channels, clk_enabled, hw, TCSR, cevts, irqvars, fw, irq, oob, panic>>


\* Variant of the end of ingenic_tcu_free_channel without the clear_bit.
free_keeping_bit(t) ==
  /\ ThreadRuns(t)
  /\ th[t].pc = "free_clear"
  /\ th' = FreeDone(t)
  /\ UNCHANGED <<cfg, requested, channels, clkvars, hw, TCSR, cevts, irqvars, fw, irq, oob, panic>>

free_clear_bit(t) ==
  /\ ThreadRuns(t)
  /\ th[t].pc = "free_clear"
  /\ requested' = clear_bit(channels[th[t].slot].idx, requested)
  /\ th' = FreeDone(t)
  /\ UNCHANGED <<cfg, channels, clkvars, hw, TCSR, cevts, irqvars, fw, irq, oob, panic>>

Allocator(t) ==
  \/ ingenic_tcu_req_channel(t)
  \/ req_clk_get(t)
  \/ req_clk_prepare_enable(t)
  \/ req_out_clk_put(t)
  \/ req_out_release(t)
  \/ free_clk_disable_unprepare(t)
  \/ free_clk_put(t)
  \/ free_clear_bit(t)


\* ---------------------------------------------------------- Channel Reset
\* Variant of the reset mask that covers the reserved bits as well.
TCSR_MASK_whole == U16_MAX

\* 0xffff & ~TCSR_RESERVED_BITS, in int arithmetic
TCSR_MASK == AndNot(U16_MAX, TCSR_RESERVED_BITS)

\* of_parse_phandle, syscon_node_to_regmap, regmap_update_bits: each may fail.
ResetOutcomes == {"OK", "EINVAL", "ENODEV", "EIO"}

ingenic_tcu_reset_channel(t) ==
  /\ ThreadRuns(t)
  /\ th[t].pc = "reset"
  /\ \E r \in ResetOutcomes :
       LET n == channels[th[t].slot].idx
       IN IF r = "OK"
          THEN /\ TCSR' = [TCSR EXCEPT ![n] = regmap_update_bits(@, TCSR_MASK, 0)]
               /\ th' = Goto(t, "get_rate")
          ELSE /\ TCSR' = TCSR
               /\ th' = GotoFail(t, "free_disable", r, "reset")
  /\ UNCHANGED <<cfg, requested, channels, clkvars, hw, cevts, irqvars, fw, irq, oob, panic>>

\* ------------------------------------------------- ingenic_tcu_setup_cevt
\* Variant of the rate read that accepts a rate of zero.
setup_rate_unchecked(t) ==
  /\ ThreadRuns(t)
  /\ th[t].pc = "get_rate"
  /\ \E r \in Rates : th' = [th EXCEPT ![t].pc = "kzalloc", ![t].rate = r]
  /\ UNCHANGED <<cfg, requested, channels, clkvars, hw, TCSR, cevts, irqvars, fw, irq, oob, panic>>

\* rate = clk_get_rate(channel->clk); if (!rate) ...
setup_clk_get_rate(t) ==
  /\ ThreadRuns(t)
  /\ th[t].pc = "get_rate"
  /\ \E r \in Rates :
       th' = IF r = 0
             THEN GotoFail(t, "free_disable", "EINVAL", "rate")
             ELSE [th EXCEPT ![t].pc = "kzalloc", ![t].rate = r]
  /\ UNCHANGED <<cfg, requested, channels, clkvars, hw, TCSR, cevts, irqvars, fw, irq, oob, panic>>

\* jzcevt = kzalloc(sizeof(*jzcevt), GFP_KERNEL)
setup_kzalloc(t) ==
  /\ ThreadRuns(t)
  /\ th[t].pc = "kzalloc"
  /\ \E ok \in BOOLEAN :
       IF ok
       THEN /\ cevts' = [cevts EXCEPT ![th[t].i] = [NoCevt EXCEPT !.alloc = TRUE]]
            /\ th' = Goto(t, "irq_map")
       ELSE /\ cevts' = cevts
            /\ th' = GotoFail(t, "free_disable", "ENOMEM", "alloc")
  /\ UNCHANGED <<cfg, requested, channels, clkvars, hw, TCSR, irqvars, fw, irq, oob, panic>>

\* virq = irq_of_parse_and_map(np, idx): the "interrupts" property has
\* num_channels entries, so an idx beyond them maps to nothing.
irq_of_parse_and_map(idx) ==
  {0} \cup (IF idx < num_channels THEN {idx + 1} ELSE {})

setup_irq_map(t) ==
  /\ ThreadRuns(t)
  /\ th[t].pc = "irq_map"
  /\ \E v \in irq_of_parse_and_map(th[t].slot) :
       IF v = 0
       THEN /\ irq_map' = irq_map
            /\ th' = GotoFail(t, "err_kfree", "EINVAL", "irq_map")
       ELSE /\ irq_map' = irq_map \cup {v}
            /\ th' = [th EXCEPT ![t].pc = "request_irq", ![t].virq = v]
  /\ UNCHANGED <<cfg, requested, channels, clkvars, hw, TCSR, cevts, irq_action, fw, irq, oob, panic>>

\* err = request_irq(virq, ingenic_tcu_cevt_cb, IRQF_TIMER, name, &jzcevt->cevt)
RequestIrqOutcomes(v) ==
  {"EBUSY", "ENOMEM"} \cup (IF irq_action[v] = 0 THEN {"OK"} ELSE {})

setup_request_irq(t) ==
  /\ ThreadRuns(t)
  /\ th[t].pc = "request_irq"
  /\ \E r \in RequestIrqOutcomes(th[t].virq) :
       IF r = "OK"
       THEN /\ irq_action' = [irq_action EXCEPT ![th[t].virq] = th[t].i]
            /\ th' = Goto(t, "set_channel")
       ELSE /\ irq_action' = irq_action
            /\ th' = GotoFail(t, "err_irq_dispose", r, "request_irq")
  /\ UNCHANGED <<cfg, requested, channels, clkvars, hw, TCSR, cevts, irq_map, fw, irq, oob, panic>>

\* jzcevt->channel = channel
setup_set_channel(t) ==
  /\ ThreadRuns(t)
  /\ th[t].pc = "set_channel"
  /\ cevts' = [cevts EXCEPT ![th[t].i].channel_set = TRUE,
                            ![th[t].i].channel = th[t].slot]
  /\ th' = Goto(t, "register")
  /\ UNCHANGED <<cfg, requested, channels, clkvars, hw, TCSR, irqvars, fw, irq, oob, panic>>

\* clockevents_config_and_register(&jzcevt->cevt, rate, 10, (1 << 16) - 1);
\* the framework decides whether it installs an event handler on the device.
setup_register(t) ==
  /\ ThreadRuns(t)
  /\ th[t].pc = "register"
  /\ \E h \in BOOLEAN :
       cevts' = [cevts EXCEPT ![th[t].i].registered = TRUE,
                              ![th[t].i].rate = th[t].rate,
                              ![th[t].i].min_delta = MIN_DELTA,
                              ![th[t].i].max_delta = (2 ^ 16) - 1,
                              ![th[t].i].event_handler = h]
  /\ th' = GotoErr(t, "setup_ret", "OK")
  /\ UNCHANGED <<cfg, requested, channels, clkvars, hw, TCSR, irqvars, fw, irq, oob, panic>>

\* Variant of err_out_irq_dispose_mapping that keeps the mapping.
setup_err_irq_kept(t) ==
  /\ ThreadRuns(t)
  /\ th[t].pc = "err_irq_dispose"
  /\ th' = Goto(t, "err_kfree")
  /\ UNCHANGED <<cfg, requested, channels, clkvars, hw, TCSR, cevts, irqvars, fw, irq, oob, panic>>

\* err_out_irq_dispose_mapping: irq_dispose_mapping(virq)
setup_err_irq_dispose(t) ==
  /\ ThreadRuns(t)
  /\ th[t].pc = "err_irq_dispose"
  /\ irq_map' = irq_map \ {th[t].virq}
  /\ th' = Goto(t, "err_kfree")
  /\ UNCHANGED <<cfg, requested, channels, clkvars, hw, TCSR, cevts, irq_action, fw, irq, oob, panic>>


\* Variant of err_out_kfree_jzcevt that returns without releasing the channel.
setup_err_kfree_leaking(t) ==
  /\ ThreadRuns(t)
  /\ th[t].pc = "err_kfree"
  /\ cevts' = [cevts EXCEPT ![th[t].i] = NoCevt]
  /\ th' = Goto(t, "setup_ret")
  /\ UNCHANGED <<cfg, requested, channels, clkvars, hw, TCSR, irqvars, fw, irq, oob, panic>>

\* err_out_kfree_jzcevt: kfree(jzcevt); then err_out_free_channel
setup_err_kfree(t) ==
  /\ ThreadRuns(t)
  /\ th[t].pc = "err_kfree"
  /\ cevts' = [cevts EXCEPT ![th[t].i] = NoCevt]
  /\ th' = Goto(t, "free_disable")
  /\ UNCHANGED <<cfg, requested, channels, clkvars, hw, TCSR, irqvars, fw, irq, oob, panic>>

\* ------------------------------------------------------- ingenic_tcu_init
\* for (i = 0; i < num_timers; i++) { read timers[i]; setup_cevt(np, tcu, timer)
ingenic_tcu_init_loop(t) ==
  /\ ThreadRuns(t)
  /\ th[t].pc = "loop"
  /\ th' = IF th[t].i > Len(timers)
           THEN Goto(t, "done")
           ELSE [th EXCEPT ![t].pc = "req_tas", ![t].slot = timers[th[t].i],
                           ![t].err = "OK", ![t].fail = "none",
                           ![t].rate = 0, ![t].virq = 0]
  /\ UNCHANGED <<cfg, requested, channels, clkvars, hw, TCSR, cevts, irqvars, fw, irq, oob, panic>>

\* BUG_ON(err) after ingenic_tcu_setup_cevt returned
ingenic_tcu_init_bug_on(t) ==
  /\ ThreadRuns(t)
  /\ th[t].pc = "setup_ret"
  /\ IF th[t].err # "OK"
     THEN /\ panic' = TRUE
          /\ th' = Goto(t, "bug")
     ELSE /\ panic' = panic
          /\ th' = [th EXCEPT ![t].pc = "loop", ![t].i = @ + 1]
  /\ UNCHANGED <<cfg, requested, channels, clkvars, hw, TCSR, cevts, irqvars, fw, irq, oob>>

Setup(t) ==
  \/ ingenic_tcu_reset_channel(t)
  \/ setup_clk_get_rate(t)
  \/ setup_kzalloc(t)
  \/ setup_irq_map(t)
  \/ setup_request_irq(t)
  \/ setup_set_channel(t)
  \/ setup_register(t)
  \/ setup_err_irq_dispose(t)
  \/ setup_err_kfree(t)
  \/ ingenic_tcu_init_loop(t)
  \/ ingenic_tcu_init_bug_on(t)


\* ---------------------------------------------------------- Event Binding
\* tcu_timer_enable / tcu_timer_disable (linux/mfd/syscon/jz4740-tcu.h): an
\* atomic set / clear of the channel's bit in the shared enable register.
tcu_timer_enable(ter, idx) == ter \cup {idx}
tcu_timer_disable(ter, idx) == ter \ {idx}

\* writel(value, tcu->base + offset); next <= 0xffff wherever the driver
\* writes it, so the cast to unsigned int keeps the value.
writel(value, offset) == [mmio EXCEPT ![offset] = value]

\* A callback of a binding runs either in the base context ("fw": the
\* framework configuring the device) or inside the interrupt handler ("irq").
Ctx(who) == IF who = "fw" THEN fw ELSE irq
Home(who) == IF who = "fw" THEN "idle" ELSE "ret"
Runs(who) == ~panic /\ (who = "fw" => irq.pc = "none")
SetCtx(who, rec) ==
  /\ fw' = IF who = "fw" THEN rec ELSE fw
  /\ irq' = IF who = "irq" THEN rec ELSE irq

\* jzcevt->channel->idx
ChanIdx(k) == channels[cevts[k].channel].idx

\* The framework calls into a device from the registration on
\* (clockevents_config_and_register may itself program the device).
FrameworkMayCall(k) ==
  /\ Runs("fw")
  /\ fw.pc = "idle"
  /\ cevts[k].registered
  /\ th[0].pc \in {"setup_ret", "done"}
  /\ th[0].err = "OK"

\* The framework calls set_next_event(next, evt).
fw_call_set_next(k, next) ==
  /\ FrameworkMayCall(k)
  /\ fw' = [FwIdle EXCEPT !.k = k, !.pc = "check", !.op = "set_next", !.next = next,
                          !.idle_at_call = ChanIdx(k) \notin TER]
  /\ UNCHANGED <<cfg, requested, channels, clkvars, hw, TCSR, cevts, irqvars, th, irq, oob, panic>>

\* The framework calls set_state_shutdown(evt).
fw_call_shutdown(k) ==
  /\ FrameworkMayCall(k)
  /\ fw' = [FwIdle EXCEPT !.k = k, !.pc = "shutdown", !.op = "shutdown"]
  /\ UNCHANGED <<cfg, requested, channels, clkvars, hw, TCSR, cevts, irqvars, th, irq, oob, panic>>


\* Variant of the shutdown that also rewinds the counter.
shutdown_resetting_counter(who) ==
  /\ Runs(who)
  /\ Ctx(who).pc = "shutdown"
  /\ TER' = tcu_timer_disable(TER, ChanIdx(Ctx(who).k))
  /\ mmio' = writel(0, REG_TCNTc(ChanIdx(Ctx(who).k)))
  /\ SetCtx(who, [Ctx(who) EXCEPT !.pc = Home(who), !.ret = "OK"])
  /\ UNCHANGED <<cfg, requested, channels, clkvars, TCSR, cevts, irqvars, th, oob, panic>>

\* ingenic_tcu_cevt_set_state_shutdown: tcu_timer_disable(...); return 0
ingenic_tcu_cevt_set_state_shutdown(who) ==
  /\ Runs(who)
  /\ Ctx(who).pc = "shutdown"
  /\ TER' = tcu_timer_disable(TER, ChanIdx(Ctx(who).k))
  /\ SetCtx(who, [Ctx(who) EXCEPT !.pc = Home(who), !.ret = "OK"])
  /\ UNCHANGED <<cfg, requested, channels, clkvars, mmio, TCSR, cevts, irqvars, th, oob, panic>>


\* Variant of ingenic_tcu_cevt_set_next without the range check.
set_next_unchecked(who) ==
  /\ Runs(who)
  /\ Ctx(who).pc = "check"
  /\ SetCtx(who, [Ctx(who) EXCEPT !.pc = "w_tdfr"])
  /\ UNCHANGED <<cfg, requested, channels, clkvars, hw, TCSR, cevts, irqvars, th, oob, panic>>

\* ingenic_tcu_cevt_set_next: if (next > 0xffff) return -EINVAL;
ingenic_tcu_cevt_set_next(who) ==
  /\ Runs(who)
  /\ Ctx(who).pc = "check"
  /\ SetCtx(who, IF Ctx(who).next > U16_MAX
                 THEN [Ctx(who) EXCEPT !.pc = Home(who), !.ret = "EINVAL",
                                       !.idle_at_call = FALSE]
                 ELSE [Ctx(who) EXCEPT !.pc = "w_tdfr"])
  /\ UNCHANGED <<cfg, requested, channels, clkvars, hw, TCSR, cevts, irqvars, th, oob, panic>>


\* Variant of the reload write that sets the enable bit in the same breath.
set_next_write_tdfr_enabling(who) ==
  /\ Runs(who)
  /\ Ctx(who).pc = "w_tdfr"
  /\ mmio' = writel(Ctx(who).next, REG_TDFRc(ChanIdx(Ctx(who).k)))
  /\ TER' = tcu_timer_enable(TER, ChanIdx(Ctx(who).k))
  /\ SetCtx(who, [Ctx(who) EXCEPT !.pc = "w_tcnt"])
  /\ UNCHANGED <<cfg, requested, channels, clkvars, TCSR, cevts, irqvars, th, oob, panic>>

\* writel((unsigned int) next, tcu->base + REG_TDFRc(idx))
set_next_write_tdfr(who) ==
  /\ Runs(who)
  /\ Ctx(who).pc = "w_tdfr"
  /\ mmio' = writel(Ctx(who).next, REG_TDFRc(ChanIdx(Ctx(who).k)))
  /\ SetCtx(who, [Ctx(who) EXCEPT !.pc = "w_tcnt"])
  /\ UNCHANGED <<cfg, requested, channels, clkvars, TER, TCSR, cevts, irqvars, th, oob, panic>>

\* writel(0, tcu->base + REG_TCNTc(idx))
set_next_write_tcnt(who) ==
  /\ Runs(who)
  /\ Ctx(who).pc = "w_tcnt"
  /\ mmio' = writel(0, REG_TCNTc(ChanIdx(Ctx(who).k)))
  /\ SetCtx(who, [Ctx(who) EXCEPT !.pc = "enable"])
  /\ UNCHANGED <<cfg, requested, channels, clkvars, TER, TCSR, cevts, irqvars, th, oob, panic>>

\* tcu_timer_enable(tcu->ter, channel->idx); return 0
set_next_enable(who) ==
  /\ Runs(who)
  /\ Ctx(who).pc = "enable"
  /\ TER' = tcu_timer_enable(TER, ChanIdx(Ctx(who).k))
  /\ SetCtx(who, [Ctx(who) EXCEPT !.pc = Home(who), !.ret = "OK",
                                  !.idle_at_call = FALSE])
  /\ UNCHANGED <<cfg, requested, channels, clkvars, mmio, TCSR, cevts, irqvars, th, oob, panic>>

\* The interrupt controller delivers a channel's match interrupt: the line
\* has a handler and the channel's counter is enabled.  Handlers run with
\* interrupts off, one at a time.
irq_deliver(k) ==
  /\ ~panic
  /\ irq.pc = "none"
  /\ \E v \in Virqs : irq_action[v] = k /\ (v - 1) \in TER
  /\ irq' = [IrqNone EXCEPT !.k = k, !.pc = "disable"]
  /\ UNCHANGED <<cfg, requested, channels, clkvars, hw, TCSR, cevts, irqvars, th, fw, oob, panic>>


\* Variant of the handler that calls the event handler without disarming.
cevt_cb_not_disarming ==
  /\ ~panic
  /\ irq.pc = "disable"
  /\ panic' = panic
  /\ TER' = TER
  /\ irq' = IF cevts[irq.k].event_handler
            THEN [irq EXCEPT !.pc = "handler", !.called = @ + 1]
            ELSE [irq EXCEPT !.pc = "ret"]
  /\ UNCHANGED <<cfg, requested, channels, clkvars, mmio, TCSR, cevts, irqvars, th, fw, oob>>

\* ingenic_tcu_cevt_cb up to the call of the event handler: channel =
\* jzcevt->channel (NULL until setup assigns it: the load of channel->tcu
\* faults); tcu_timer_disable(...); if (cevt->event_handler) ...
ingenic_tcu_cevt_cb ==
  /\ ~panic
  /\ irq.pc = "disable"
  /\ IF ~cevts[irq.k].channel_set
     THEN /\ panic' = TRUE
          /\ TER' = TER
          /\ irq' = [irq EXCEPT !.pc = "oops"]
     ELSE /\ panic' = panic
          /\ TER' = tcu_timer_disable(TER, ChanIdx(irq.k))
          /\ irq' = IF cevts[irq.k].event_handler
                    THEN [irq EXCEPT !.pc = "handler", !.called = @ + 1]
                    ELSE [irq EXCEPT !.pc = "ret"]
  /\ UNCHANGED <<cfg, requested, channels, clkvars, mmio, TCSR, cevts, irqvars, th, fw, oob>>

\* cevt->event_handler(cevt): the framework's handler may program the next
\* event, shut the device down, or do neither.
handler_call_set_next(next) ==
  /\ ~panic
  /\ irq.pc = "handler"
  /\ irq' = [irq EXCEPT !.pc = "check", !.op = "set_next", !.next = next,
                        !.idle_at_call = ChanIdx(irq.k) \notin TER]
  /\ UNCHANGED <<cfg, requested, channels, clkvars, hw, TCSR, cevts, irqvars, th, fw, oob, panic>>

handler_call_shutdown ==
  /\ ~panic
  /\ irq.pc = "handler"
  /\ irq' = [irq EXCEPT !.pc = "shutdown", !.op = "shutdown"]
  /\ UNCHANGED <<cfg, requested, channels, clkvars, hw, TCSR, cevts, irqvars, th, fw, oob, panic>>

handler_return ==
  /\ ~panic
  /\ irq.pc = "handler"
  /\ irq' = [irq EXCEPT !.pc = "ret"]
  /\ UNCHANGED <<cfg, requested, channels, clkvars, hw, TCSR, cevts, irqvars, th, fw, oob, panic>>

\* Variant of the handler's return that disarms the channel once more.
cevt_cb_return_disarming ==
  /\ ~panic
  /\ irq.pc = "ret"
  /\ TER' = tcu_timer_disable(TER, ChanIdx(irq.k))
  /\ irq' = IrqNone
  /\ UNCHANGED <<cfg, requested, channels, clkvars, mmio, TCSR, cevts, irqvars, th, fw, oob, panic>>

\* return IRQ_HANDLED
ingenic_tcu_cevt_cb_return ==
  /\ ~panic
  /\ irq.pc = "ret"
  /\ irq' = IrqNone
  /\ UNCHANGED <<cfg, requested, channels, clkvars, hw, TCSR, cevts, irqvars, th, fw, oob, panic>>

Binding ==
  \/ \E k \in Bindings, next \in TickInputs : fw_call_set_next(k, next)
  \/ \E k \in Bindings : fw_call_shutdown(k)
  \/ \E who \in {"fw", "irq"} : ingenic_tcu_cevt_set_state_shutdown(who)
  \/ \E who \in {"fw", "irq"} : ingenic_tcu_cevt_set_next(who)
  \/ \E who \in {"fw", "irq"} : set_next_write_tdfr(who)
  \/ \E who \in {"fw", "irq"} : set_next_write_tcnt(who)
  \/ \E who \in {"fw", "irq"} : set_next_enable(who)
  \/ \E k \in Bindings : irq_deliver(k)
  \/ ingenic_tcu_cevt_cb
  \/ \E next \in TickInputs : handler_call_set_next(next)
  \/ handler_call_shutdown
  \/ handler_return
  \/ ingenic_tcu_cevt_cb_return

\* ------------------------------------------------------- the driver
Next == Allocator(0) \/ Setup(0) \/ Binding

Spec == Init /\ [][Next]_vars

\* ------------------------------------------- the allocator on its own
\* Callers of the Channel Allocator contract: each claims channels of the
\* unit and releases, once, the channels it holds.
h_claim(t, s) ==
  /\ ThreadRuns(t)
  /\ th[t].pc = "h_idle"
  /\ s < num_channels
  /\ th' = [th EXCEPT ![t].pc = "req_tas", ![t].slot = s, ![t].err = "OK",
                      ![t].fail = "none"]
  /\ UNCHANGED <<cfg, requested, channels, clkvars, hw, TCSR, cevts, irqvars, fw, irq, oob, panic>>

h_release(t, s) ==
  /\ ThreadRuns(t)
  /\ th[t].pc = "h_idle"
  /\ s \in th[t].held
  /\ th' = [th EXCEPT ![t].pc = "free_disable", ![t].slot = s, ![t].fail = "none"]
  /\ UNCHANGED <<cfg, requested, channels, clkvars, hw, TCSR, cevts, irqvars, fw, irq, oob, panic>>

InitAlloc ==
  /\ InitCommon
  /\ timers = << >>
  /\ th = [t \in Threads |-> IF t = 0 THEN ThreadOff
                             ELSE [ThreadOff EXCEPT !.pc = "h_idle"]]

NextAlloc ==
  \E t \in Claimants :
     \/ Allocator(t)
     \/ \E s \in Slots : h_claim(t, s)
     \/ \E s \in Slots : h_release(t, s)

SpecAlloc == InitAlloc /\ [][NextAlloc]_vars


\* ------------------------------------- the reset over all register values
\* The claim and reset of channel 0 of a one-channel unit, for every 16-bit
\* content the control registers may have been left with.
TcsrValues == 0..U16_MAX

InitReset ==
  /\ num_channels = 1
  /\ timers = <<0>>
  /\ requested = {}
  /\ channels = InitChannels(num_channels)
  /\ clk_refs = [n \in Bits |-> 0]
  /\ clk_enabled = [n \in Bits |-> 0]
  /\ TER = {}
  /\ \E v \in StaleRegs : mmio = [o \in Offsets |-> v]
  /\ \E v \in TcsrValues : TCSR = [c \in Bits |-> v]
  /\ cevts = [k \in Bindings |-> NoCevt]
  /\ irq_map = {}
  /\ irq_action = [v \in Virqs |-> 0]
  /\ fw = FwIdle
  /\ irq = IrqNone
  /\ oob = FALSE
  /\ panic = FALSE
  /\ th = [t \in Threads |-> IF t = 0 THEN [ThreadOff EXCEPT !.pc = "loop", !.i = 1]
                             ELSE ThreadOff]

NextReset ==
  \/ ingenic_tcu_init_loop(0)
  \/ Allocator(0)
  \/ ingenic_tcu_reset_channel(0)
  \/ ingenic_tcu_init_bug_on(0)

SpecReset == InitReset /\ [][NextReset]_vars


\* ================================================================ claims
TDFR(c) == mmio[REG_TDFRc(c)]
TCNT(c) == mmio[REG_TCNTc(c)]
InRange == 0..(num_channels - 1)

\* The step in which context `who` executes a statement of its callback.
FwStep == fw' # fw /\ fw.pc # "idle"
IrqStep == irq' # irq /\ irq.pc \notin {"none", "handler"}

\* C1: for every ticks in 0..65535 arm(ticks) returns success, and right
\* after it returns the channel's reload register equals ticks, its counter
\* equals 0 and its enable bit is set, whatever the channel's state was before.
C1_ArmProgramsChannel ==
  [][ /\ (fw.pc = "check" /\ fw.next <= 65535 /\ FwStep) => fw'.pc = "w_tdfr"
      /\ (irq.pc = "check" /\ irq.next <= 65535 /\ IrqStep) => irq'.pc = "w_tdfr"
      /\ (fw.pc = "enable" /\ FwStep) =>
            /\ fw'.ret = "OK"
            /\ TDFR(ChanIdx(fw.k))' = fw.next
            /\ TCNT(ChanIdx(fw.k))' = 0
            /\ ChanIdx(fw.k) \in TER'
      /\ (irq.pc = "enable" /\ IrqStep) =>
            /\ irq'.ret = "OK"
            /\ TDFR(ChanIdx(irq.k))' = irq.next
            /\ TCNT(ChanIdx(irq.k))' = 0
            /\ ChanIdx(irq.k) \in TER'
    ]_vars



\* C2: for every ticks > 65535 arm(ticks) fails with -EINVAL and leaves the
\* channel's reload register, counter and enable bit as they were, on an
\* Idle and on an Armed channel alike.
C2_ArmRejectsOutOfRange ==
  [][ /\ (fw.pc = "check" /\ fw.next > 65535 /\ FwStep) =>
            (fw'.pc = "idle" /\ fw'.ret = "EINVAL" /\ UNCHANGED <<TER, mmio>>)
      /\ (irq.pc = "check" /\ irq.next > 65535 /\ IrqStep) =>
            (irq'.pc = "ret" /\ irq'.ret = "EINVAL" /\ UNCHANGED <<TER, mmio>>)
    ]_vars

\* An arm beyond the range was rejected on a channel armed for 65535 ticks.
C2_Witness ==
  /\ fw.pc = "idle" /\ fw.op = "set_next" /\ fw.ret = "EINVAL"
  /\ ChanIdx(fw.k) \in TER
  /\ TDFR(ChanIdx(fw.k)) = 65535
  /\ TCNT(ChanIdx(fw.k)) = 0

\* C3: within an arm of an Idle channel the writes go reload, counter,
\* enable: while the arm is under way the enable bit is clear, from the
\* counter write on the reload register holds ticks, and when only the
\* enable write is left the counter is 0.
ArmOrdered(c) ==
  (c.pc \in {"w_tdfr", "w_tcnt", "enable"} /\ c.idle_at_call) =>
     /\ ChanIdx(c.k) \notin TER
     /\ c.pc \in {"w_tcnt", "enable"} => TDFR(ChanIdx(c.k)) = c.next
     /\ c.pc = "enable" => TCNT(ChanIdx(c.k)) = 0

C3_EnableWrittenLast == ArmOrdered(fw) /\ ArmOrdered(irq)

\* An arm of an Idle channel has written reload and counter, not yet enable.
C3_Witness ==
  /\ fw.pc = "enable" /\ fw.idle_at_call /\ fw.next = 65535
  /\ TDFR(ChanIdx(fw.k)) = 65535
  /\ TCNT(ChanIdx(fw.k)) = 0
  /\ ChanIdx(fw.k) \notin TER

\* C4: whenever the handler is about to run the framework's event handler
\* for a channel, that channel's enable bit is clear.
C4_DisarmBeforeCallback ==
  irq.pc = "handler" => ChanIdx(irq.k) \notin TER

\* The event handler of a channel that had been armed is starting.
C4_Witness ==
  /\ irq.pc = "handler" /\ irq.called = 1
  /\ TDFR(ChanIdx(irq.k)) = 65535
  /\ ChanIdx(irq.k) \notin TER

\* C5: a claim of an index whose bit is set fails with -EBUSY and changes
\* neither the bitmap nor the owner's clock handle nor the clock's state.
C5_BusyClaimHasNoEffect ==
  [][ \A t \in Threads :
        (/\ th[t].pc = "req_tas" /\ th'[t] # th[t]
         /\ th[t].slot < num_channels
         /\ th[t].slot \in requested) =>
           /\ th'[t].err = "EBUSY"
           /\ th'[t].pc = (IF t = 0 THEN "setup_ret" ELSE "h_idle")
           /\ UNCHANGED <<requested, channels, clk_refs, clk_enabled>>
    ]_vars

\* A second setup of a claimed channel came back busy; the owner's clock is
\* still held and enabled.
C5_Witness ==
  /\ th[0].pc = "setup_ret" /\ th[0].fail = "claim_busy" /\ th[0].err = "EBUSY"
  /\ th[0].slot \in requested
  /\ channels[th[0].slot].clk = ClkOf(th[0].slot)
  /\ clk_refs[th[0].slot] = 1
  /\ clk_enabled[th[0].slot] = 1

\* C6: claim, release, claim of one index succeeds both times: a release
\* returns the channel to the free state (bit clear, clock disabled, handle
\* put), and a claim reports busy only while some caller owns the channel.
Owns(u, i) ==
  \/ i \in th[u].held
  \/ /\ th[u].slot = i
     /\ th[u].pc \in {"req_clk_get", "req_clk_en", "req_out_clk_put",
                      "req_out_release", "free_disable", "free_put", "free_clear"}

FreeUnlessOwned ==
  \A i \in InRange :
     (\A u \in Claimants : ~Owns(u, i)) =>
        (i \notin requested /\ clk_refs[i] = 0 /\ clk_enabled[i] = 0)

C6_ClaimReleaseClaim ==
  /\ []FreeUnlessOwned
  /\ [][ \A t \in Claimants :
           (th[t].pc = "req_tas" /\ th'[t].pc = "h_idle" /\ th'[t].err # "OK") =>
              \E u \in Claimants : Owns(u, th[t].slot)
       ]_vars

\* A caller holds, with its clock enabled, a channel it had released before.
C6_Witness ==
  \E t \in Claimants, i \in InRange :
     /\ th[t].pc = "h_idle"
     /\ i \in th[t].held /\ i \in th[t].released
     /\ i \in requested /\ clk_refs[i] = 1 /\ clk_enabled[i] = 1

\* C7: disarm clears the channel's enable bit and nothing else: the reload
\* and counter registers and the other channels' bits stay, and on a channel
\* whose bit is already clear it changes nothing.
ShutdownEffect(c) ==
  /\ c \notin TER'
  /\ TER' = TER \ {c}
  /\ mmio' = mmio
  /\ c \notin TER => UNCHANGED <<TER, mmio>>

C7_DisarmClearsOnlyEnable ==
  [][ /\ (fw.pc = "shutdown" /\ FwStep) =>
            (fw'.ret = "OK" /\ ShutdownEffect(ChanIdx(fw.k)))
      /\ (irq.pc = "shutdown" /\ IrqStep) =>
            (irq'.ret = "OK" /\ ShutdownEffect(ChanIdx(irq.k)))
    ]_vars

\* A disarm has returned on a channel that had been armed for 65535 ticks.
C7_Witness ==
  /\ fw.pc = "idle" /\ fw.op = "shutdown" /\ fw.ret = "OK"
  /\ ChanIdx(fw.k) \notin TER
  /\ TDFR(ChanIdx(fw.k)) = 65535
  /\ TCNT(ChanIdx(fw.k)) = 0

\* C8: a step of arm, disarm or the interrupt handler on one channel leaves
\* every other channel's enable bit, reload register and counter unchanged.
Frame(c) ==
  \A j \in Bits \ {c} :
     /\ (j \in TER') = (j \in TER)
     /\ TDFR(j)' = TDFR(j)
     /\ TCNT(j)' = TCNT(j)

C8_ChannelsIndependent ==
  [][ /\ FwStep => Frame(ChanIdx(fw.k))
      /\ IrqStep => Frame(ChanIdx(irq.k))
    ]_vars

\* Channel 0 was armed for 0 ticks and its interrupt handled, while channel 1
\* stays armed for 65535 ticks.
C8_Witness ==
  /\ irq.pc = "ret" /\ irq.called = 1 /\ ChanIdx(irq.k) = 0
  /\ TDFR(0) = 0 /\ TCNT(0) = 0 /\ 0 \notin TER
  /\ TDFR(1) = 65535 /\ TCNT(1) = 0 /\ 1 \in TER

\* C9: an activation entry naming an index that is not below the channel
\* count is refused: no slot outside the array is touched and no claim is
\* made for it.
C9_OutOfRangeRefused ==
  /\ ~oob
  /\ th[0].pc \notin {"off", "loop", "done", "req_tas", "setup_ret", "bug"} =>
        th[0].slot < num_channels

\* C10 as stated: whenever per-channel setup returns an error, the channel's
\* bit is clear, its clock disabled and put, no interrupt mapping or handler
\* remains, the binding is freed and nothing is registered.
NothingBound(t) ==
  /\ cevts[th[t].i] = NoCevt
  /\ \A v \in Virqs : irq_action[v] # th[t].i

ChannelFree(t) ==
  LET n == channels[th[t].slot].idx
  IN /\ n \notin requested
     /\ clk_refs[n] = 0
     /\ clk_enabled[n] = 0
     /\ (th[t].slot + 1) \notin irq_map

C10_SetupAllOrNothing ==
  (th[0].pc = "setup_ret" /\ th[0].err # "OK") =>
     (NothingBound(0) /\ ChannelFree(0))

\* C10 amended: an error return leaves nothing bound for the entry; unless
\* the claim itself found the channel busy, the channel is free again, and
\* when it did, the channel stays with its owner.
C10_SetupUnwinds ==
  (th[0].pc = "setup_ret" /\ th[0].err # "OK") =>
     /\ NothingBound(0)
     /\ th[0].fail # "claim_busy" => ChannelFree(0)
     /\ th[0].fail = "claim_busy" => channels[th[0].slot].idx \in requested

\* Setup failed at request_irq, the last point of failure, and has unwound.
C10_Witness ==
  /\ th[0].pc = "setup_ret" /\ th[0].fail = "request_irq"
  /\ th[0].slot \notin requested
  /\ clk_refs[th[0].slot] = 0

\* C11: under any interleaving of claims by concurrent callers, at most one
\* caller at a time owns an index; a claim that finds the bit set returns
\* -EBUSY in that one step, touching neither the clock handle nor the clock;
\* and the test-and-set of one index changes no other index's bit.
OneOwner ==
  \A i \in InRange : Cardinality({u \in Claimants : Owns(u, i)}) <= 1

C11_ConcurrentClaims ==
  /\ []OneOwner
  /\ [][ \A t \in Claimants :
           (th[t].pc = "req_tas" /\ th'[t] # th[t]) =>
              /\ requested' \ {th[t].slot} = requested \ {th[t].slot}
              /\ UNCHANGED <<clk_refs, clk_enabled>>
              /\ \A s \in Slots : channels'[s].clk = channels[s].clk
              /\ IF th[t].slot \in requested
                 THEN /\ th'[t].pc = "h_idle" /\ th'[t].err = "EBUSY"
                      /\ th'[t].held = th[t].held
                      /\ requested' = requested
                 ELSE th'[t].pc = "req_clk_get" /\ th[t].slot \in requested'
       ]_vars

\* Caller 2 was turned away busy from index 0 while caller 1 was still in the
\* middle of claiming it, and caller 2 holds index 1 meanwhile.
C11_Witness ==
  /\ th[1].pc = "req_clk_en" /\ th[1].slot = 0
  /\ th[2].pc = "h_idle" /\ th[2].err = "EBUSY" /\ th[2].slot = 0
  /\ th[2].held = {1}
  /\ requested = {0, 1}
  /\ clk_refs[0] = 1 /\ clk_enabled[0] = 0

\* C12: whenever no claim or release is in progress, every channel is either
\* free (bit clear, no clock reference, clock not enabled) or claimed with an
\* enabled clock (bit set, its own clock handle held, the clock enabled once).
Quiescent ==
  \A t \in Threads : th[t].pc \in {"off", "h_idle", "loop", "setup_ret", "done", "bug"}

ChannelIsFree(i) ==
  i \notin requested /\ clk_refs[i] = 0 /\ clk_enabled[i] = 0

ChannelIsClaimed(i) ==
  /\ i \in requested
  /\ channels[i].clk = ClkOf(i)
  /\ clk_refs[i] = 1
  /\ clk_enabled[i] = 1

C12_FreeOrClaimed ==
  Quiescent => \A i \in InRange : ChannelIsFree(i) \/ ChannelIsClaimed(i)

\* Both channels have been through a claim: channel 0 is held, channel 1 was
\* claimed and released again, and nobody is inside the allocator.
C12_Witness ==
  /\ Quiescent
  /\ num_channels = 2
  /\ ChannelIsClaimed(0)
  /\ ChannelIsFree(1)
  /\ \E t \in Claimants : 1 \in th[t].released /\ 0 \in th[t].held

\* C13: at most one binding exists per channel: two allocated bindings never
\* stand for the same channel, an interrupt line has the handler of the
\* binding of its own channel only, and the setup of a channel that an
\* earlier entry bound returns -EBUSY from the claim with no binding made.
BindingSlot(k) ==
  IF cevts[k].channel_set THEN cevts[k].channel ELSE th[0].slot

BoundEarlier(s) ==
  \E k \in Bindings : k < th[0].i /\ cevts[k].registered /\ cevts[k].channel = s

C13_OneBindingPerChannel ==
  /\ \A k1, k2 \in Bindings :
        (k1 # k2 /\ cevts[k1].alloc /\ cevts[k2].alloc) =>
           BindingSlot(k1) # BindingSlot(k2)
  /\ \A k \in Bindings : cevts[k].registered => cevts[k].channel_set
  /\ \A v \in Virqs :
        irq_action[v] # 0 =>
           /\ cevts[irq_action[v]].alloc
           /\ BindingSlot(irq_action[v]) = v - 1
  /\ (th[0].pc \in {"setup_ret", "bug"} /\ BoundEarlier(th[0].slot)) =>
        /\ th[0].err = "EBUSY" /\ th[0].fail = "claim_busy"
        /\ cevts[th[0].i] = NoCevt
        /\ \A v \in Virqs : irq_action[v] # th[0].i

\* The list <<0, 0>>: the first entry is bound and registered with its
\* handler on the line, the second came back busy and has no binding.
C13_Witness ==
  /\ timers = <<0, 0>>
  /\ th[0].pc = "setup_ret" /\ th[0].i = 2 /\ th[0].err = "EBUSY"
  /\ cevts[1].registered /\ cevts[1].channel = 0
  /\ irq_action[1] = 1
  /\ cevts[2] = NoCevt

\* C14: while an arm issued from the base context is between its reload
\* write and its enable write, the interrupt handler of that same channel is
\* not running, whether the channel was Idle or Armed when arm was called.
C14_ArmNotInterleaved ==
  (fw.op = "set_next" /\ fw.pc \in {"w_tcnt", "enable"}) =>
     ~(irq.pc # "none" /\ irq.k = fw.k)

\* C15: a setup that fails once the binding is allocated unwinds in reverse
\* order of acquisition: the interrupt mapping goes first and only if it was
\* made, then the binding, then the clock is disabled, its handle put and the
\* bit cleared last; at each point everything acquired earlier is still held,
\* and no count is ever released below zero.
UnwindingAfterAlloc == th[0].fail \in {"irq_map", "request_irq"}

MappingGone ==
  /\ (th[0].slot + 1) \notin irq_map
  /\ th[0].fail = "request_irq" => th[0].virq \notin irq_map

ClockAt(refs, enabled) ==
  LET n == channels[th[0].slot].idx
  IN clk_refs[n] = refs /\ clk_enabled[n] = enabled

BitHeld == channels[th[0].slot].idx \in requested

C15_ReverseUnwind ==
  /\ \A n \in Bits : clk_refs[n] >= 0 /\ clk_enabled[n] >= 0
  /\ th[0].pc = "err_irq_dispose" =>
        /\ th[0].fail = "request_irq"
        /\ th[0].virq \in irq_map
        /\ cevts[th[0].i].alloc /\ BitHeld /\ ClockAt(1, 1)
  /\ (th[0].pc = "err_kfree" /\ UnwindingAfterAlloc) =>
        /\ MappingGone
        /\ cevts[th[0].i].alloc /\ BitHeld /\ ClockAt(1, 1)
  /\ (th[0].pc = "free_disable" /\ UnwindingAfterAlloc) =>
        /\ MappingGone /\ cevts[th[0].i] = NoCevt
        /\ BitHeld /\ ClockAt(1, 1)
  /\ (th[0].pc = "free_put" /\ UnwindingAfterAlloc) =>
        /\ MappingGone /\ cevts[th[0].i] = NoCevt
        /\ BitHeld /\ ClockAt(1, 0)
  /\ (th[0].pc = "free_clear" /\ UnwindingAfterAlloc) =>
        /\ MappingGone /\ cevts[th[0].i] = NoCevt
        /\ BitHeld /\ ClockAt(0, 0)
  /\ (th[0].pc = "setup_ret" /\ UnwindingAfterAlloc) =>
        /\ MappingGone /\ cevts[th[0].i] = NoCevt
        /\ ~BitHeld /\ ClockAt(0, 0)

\* request_irq failed on the second entry; mapping and binding are gone, the
\* clock is disabled and put, and only the bit is left to clear.
C15_Witness ==
  /\ th[0].pc = "free_clear" /\ th[0].fail = "request_irq" /\ th[0].i = 2
  /\ th[0].virq = 2 /\ irq_map = {1}
  /\ cevts[2] = NoCevt /\ cevts[1].registered
  /\ requested = {0, 1}
  /\ clk_refs[1] = 0 /\ clk_enabled[1] = 0

\* C16: per delivered interrupt the event handler is called at most once, and
\* exactly once when one is installed; after the callback the handler writes
\* no register: if the callback armed the channel it is Armed with the
\* callback's tick count when the handler returns, otherwise its enable bit
\* is clear; and an enable bit is only ever set by the last write of an arm,
\* which is what an interrupt needs to be delivered.
ArmedBy(c) ==
  /\ ChanIdx(c.k) \in TER
  /\ TDFR(ChanIdx(c.k)) = c.next
  /\ TCNT(ChanIdx(c.k)) = 0

HandlerDone ==
  irq.pc = "ret" =>
     /\ irq.called = (IF cevts[irq.k].event_handler THEN 1 ELSE 0)
     /\ IF irq.op = "set_next" /\ irq.ret = "OK"
        THEN ArmedBy(irq)
        ELSE ChanIdx(irq.k) \notin TER

C16_OneShotInterrupt ==
  /\ [](irq.called <= 1)
  /\ []HandlerDone
  /\ [][ (irq.pc = "ret" /\ irq' # irq) =>
            (irq'.pc = "none" /\ UNCHANGED <<TER, mmio>>) ]_vars
  /\ [][ (irq.pc = "none" /\ irq'.pc # "none") =>
            \E v \in Virqs : irq_action[v] = irq'.k /\ (v - 1) \in TER ]_vars
  /\ [][ \A c \in Bits :
            (c \notin TER /\ c \in TER') =>
               \/ fw.pc = "enable" /\ FwStep /\ ChanIdx(fw.k) = c
               \/ irq.pc = "enable" /\ IrqStep /\ ChanIdx(irq.k) = c ]_vars

\* The handler is about to return after its callback re-armed the channel for
\* 65535 ticks.
C16_Witness ==
  /\ irq.pc = "ret" /\ irq.called = 1
  /\ irq.op = "set_next" /\ irq.ret = "OK" /\ irq.next = 65535
  /\ ArmedBy(irq)

\* C17: every binding registered with the framework carries a non-zero clock
\* rate and the tick bounds 10 and 65535; a setup whose clock reports rate 0
\* returns -EINVAL with nothing allocated or registered and the channel free.
C17_RegisteredRateAndBounds ==
  /\ \A k \in Bindings :
        cevts[k].registered =>
           /\ cevts[k].rate # 0
           /\ cevts[k].min_delta = 10
           /\ cevts[k].max_delta = 65535
  /\ th[0].pc \in {"kzalloc", "irq_map", "request_irq", "set_channel", "register"} =>
        th[0].rate # 0
  /\ th[0].fail = "rate" =>
        /\ th[0].err = "EINVAL"
        /\ th[0].pc \in {"free_disable", "free_put", "free_clear", "setup_ret", "bug"}
        /\ cevts[th[0].i] = NoCevt
        /\ th[0].pc \in {"setup_ret", "bug"} => ChannelFree(0)

\* The first entry is registered at 12 MHz with bounds 10..65535; the second
\* entry's clock reported rate 0 and its setup returned with the channel free.
C17_Witness ==
  /\ cevts[1].registered /\ cevts[1].rate = 12000000
  /\ cevts[1].min_delta = 10 /\ cevts[1].max_delta = 65535
  /\ th[0].pc = "setup_ret" /\ th[0].i = 2 /\ th[0].fail = "rate"
  /\ th[0].slot \notin requested /\ clk_enabled[th[0].slot] = 0

\* C18: a successful reset leaves the channel's control register equal to
\* its prior value AND 0x3f (bits 6..15 clear, bits 0..5 kept), for every
\* 16-bit prior value, and touches no other channel's register; a reset that
\* fails returns its error and writes nothing.
C18_ResetKeepsReservedBits ==
  [][ (th[0].pc = "reset" /\ th'[0] # th[0]) =>
         LET n == channels[th[0].slot].idx
         IN IF th'[0].pc = "get_rate"
            THEN /\ TCSR'[n] = TCSR[n] % 64
                 /\ TCSR'[n] < 64
                 /\ \A c \in Bits \ {n} : TCSR'[c] = TCSR[c]
            ELSE /\ th'[0].pc = "free_disable"
                 /\ th'[0].err \in {"EINVAL", "ENODEV", "EIO"}
                 /\ TCSR' = TCSR
    ]_vars

\* The reset of channel 0 succeeded on a register that held 0xffff (as the
\* untouched register of channel 1 still does): 0x3f is left.
C18_Witness ==
  /\ th[0].pc = "get_rate" /\ th[0].slot = 0
  /\ TCSR[1] = 65535
  /\ TCSR[0] = 63

\* C19: when a setup has returned success and the framework has not called
\* the device yet, the channel is Idle: its enable bit is clear and its
\* interrupt handler is not running, whatever the hardware held beforehand.
C19_IdleAfterSetup ==
  (th[0].pc = "setup_ret" /\ th[0].err = "OK" /\ fw = FwIdle) =>
     /\ ChanIdx(th[0].i) \notin TER
     /\ ~(irq.pc # "none" /\ irq.k = th[0].i)

\* C20: whenever the interrupt handler runs for a binding, that binding's
\* channel reference has been assigned.
C20_HandlerSeesChannel ==
  irq.pc # "none" => cevts[irq.k].channel_set

====
